---- MODULE Spec2Model ----
(***************************************************************************)
(* Model of grazing_etl.py: the extract -> transform -> load pipeline that *)
(* reads scanned grazing reports from data_dump/, normalises them, writes  *)
(* a parquet snapshot, upserts the rows into a postgres table and renames  *)
(* the snapshot into loaded_data/.                                         *)
(*                                                                         *)
(* Cells of a table are strings; Null stands for a null cell and None for  *)
(* Python's None.  The warehouse table is a heap of rows (a sequence); its *)
(* unique constraint on the primary key is enforced by the statement the   *)
(* loader executes, as in postgres.                                        *)
(***************************************************************************)
EXTENDS Integers, Sequences, FiniteSets, TLC

VARIABLES
    data_dump,      \* inbound directory: file name -> document
    dir_order,      \* the order in which the file system lists data_dump
    parquet,        \* the snapshot file etl_yaml["transformed_parquet"]
    loaded_data,    \* archive directory: run date -> archived snapshot
    today,          \* calendar date of the current run
    table,          \* destination table: sequence of rows
    table0,         \* the destination table before the first run
    now,            \* current_timestamp of the warehouse
    log,            \* records the current run has appended to the log file
    etl_yaml,       \* configuration loaded from yaml/etl_variables.yaml
    pc,             \* position of the process in __main__
    run,            \* number of the current run
    listing,        \* os.listdir("data_dump") of the current run
    idx,            \* position of the file loop in listing
    raw_data,       \* last result of extract_data
    cand,           \* body rows of the last table before null filtering
    cleaned_data,   \* last result of transform_data
    combined_data,  \* per-file results accumulated by the file loop
    proc_data,      \* the unified dataset
    con,            \* the warehouse session of the current run
    i,              \* position of the row loop in proc_data
    executed,       \* statements executed by the current run
    fault,          \* failures that happened in the current run
    nfaults,        \* warehouse failures that happened so far, over all runs
    loaded,         \* the latest load that completed: dataset and table
    aliased         \* an area value and its images under the alias mapping

vars == <<data_dump, dir_order, parquet, loaded_data, today, table, now, log, etl_yaml,
          pc, run, listing, idx, raw_data, cand, cleaned_data,
          combined_data, proc_data, con, i, executed, fault, nfaults,
          loaded, table0, aliased>>

(***************************************************************************)
(* Bounds of the model.                                                    *)
(***************************************************************************)
MaxFiles == 2
MaxRuns == 2
MaxDay == 2
MaxRows == 6
MaxFaults == 1
MaxApplications == 2

(***************************************************************************)
(* Values.                                                                 *)
(***************************************************************************)
Null == "<null>"
None == [ok |-> FALSE, width |-> 0, rows |-> <<>>]
NoFile == [exists |-> FALSE, rows |-> <<>>]

Frame(w, rs) == [ok |-> TRUE, width |-> w, rows |-> rs]

Range(s) == {s[k] : k \in 1..Len(s)}

Min(a, b) == IF a < b THEN a ELSE b
Max(a, b) == IF a > b THEN a ELSE b

\* Python's s[start:stop] on a sequence (step 1); Python indices start at 0.
PySlice(s, start, stop) ==
    LET n == Len(s)
        norm(x) == IF x < 0 THEN Max(n + x, 0) ELSE Min(x, n)
        lo == norm(start)
        hi == norm(stop)
    IN  IF hi <= lo THEN <<>> ELSE SubSeq(s, lo + 1, hi)

(***************************************************************************)
(* Configuration (etl_yaml).  prim_key is the column list of the ON        *)
(* CONFLICT target; areas_to_replace is the alias table of area names.     *)
(***************************************************************************)
Columns == {"area", "number_of_animal_units", "comments", "grazer", "reporting_date"}

AreaAlias == [a \in {"N pasture"} |-> "north"]

Config(update_col) ==
    [db_schema |-> <<"area", "number_of_animal_units", "comments", "grazer",
                     "reporting_date">>,
     areas_to_replace |-> AreaAlias,
     prim_key |-> <<"area", "grazer", "reporting_date">>,
     update_col |-> update_col,
     schema_name |-> "grazing",
     table_name |-> "grazing_data"]

Configs == {Config("number_of_animal_units"), Config("comments")}

(***************************************************************************)
(* Log records.                                                            *)
(***************************************************************************)
Rec(level, msg) == [level |-> level, msg |-> msg]

RunHeader == Rec("INFO", "Grazing ETL ran on")
NoDataMsg == Rec("INFO", "No data is available for loading, quitting program.")
ExtractedMsg == Rec("INFO", "Table successly extracted")
TransformedMsg == Rec("INFO", "Data successfully transformed.")
ExceptionMsg == Rec("ERROR", "exception")
ConnectedMsg == Rec("INFO", "Successfully connected")
TableExistsMsg == Rec("INFO", "Table exists, continue with loading.")
LoadedMsg == Rec("INFO", "Data was successfully loaded")
ErrorMsg == Rec("ERROR", "OperationalError")
RanMsg == Rec("INFO", "Succesfully ran Grazing ETL.")

(***************************************************************************)
(* str.to_date(format="%B %d, %Y").  A text is read as its tokens; the     *)
(* parse succeeds when the text has the shape "<month name> <day>, <year>" *)
(* and names a day of that month.                                          *)
(***************************************************************************)
DateTokens(text) ==
    CASE text = "June 12, 2023" -> [shape |-> "B d, Y", B |-> "June", d |-> 12, Y |-> 2023]
      [] text = "July 4, 2023" -> [shape |-> "B d, Y", B |-> "July", d |-> 4, Y |-> 2023]
      [] text = "June 31, 2023" -> [shape |-> "B d, Y", B |-> "June", d |-> 31, Y |-> 2023]
      [] text = "12/06/2023" -> [shape |-> "d/m/Y", B |-> "06", d |-> 12, Y |-> 2023]
      [] OTHER -> [shape |-> "", B |-> "", d |-> 0, Y |-> 0]

MonthNumber(name) ==
    CASE name = "January" -> 1 [] name = "February" -> 2 [] name = "March" -> 3
      [] name = "April" -> 4 [] name = "May" -> 5 [] name = "June" -> 6
      [] name = "July" -> 7 [] name = "August" -> 8 [] name = "September" -> 9
      [] name = "October" -> 10 [] name = "November" -> 11
      [] name = "December" -> 12 [] OTHER -> 0

DaysIn(m, y) ==
    IF m \in {4, 6, 9, 11} THEN 30
    ELSE IF m = 2
         THEN (IF (y % 4 = 0 /\ y % 100 # 0) \/ y % 400 = 0 THEN 29 ELSE 28)
         ELSE 31

\* variant: str.to_date(.., strict=False), a text that does not parse gives
\* a null date
to_date_not_strict(text) ==
    LET t == DateTokens(text)
        m == MonthNumber(t.B)
    IN  IF t.shape = "B d, Y" /\ m # 0 /\ t.d >= 1 /\ t.d <= DaysIn(m, t.Y)
        THEN [ok |-> TRUE, date |-> <<t.Y, m, t.d>>]
        ELSE [ok |-> TRUE, date |-> <<>>]

to_date(text) ==
    LET t == DateTokens(text)
        m == MonthNumber(t.B)
    IN  IF t.shape = "B d, Y" /\ m # 0 /\ t.d >= 1 /\ t.d <= DaysIn(m, t.Y)
        THEN [ok |-> TRUE, date |-> <<t.Y, m, t.d>>]
        ELSE [ok |-> FALSE, date |-> <<>>]

(***************************************************************************)
(* extract_data: the OCR engine either cannot read the document, finds no  *)
(* table on its first page, or yields the table of the document.           *)
(***************************************************************************)
extract_data(doc) ==
    IF doc.kind = "table" THEN doc.table ELSE None

extract_log(doc) ==
    CASE doc.kind = "table" -> <<ExtractedMsg>>
      [] doc.kind = "no_table" -> <<ExtractedMsg, ExceptionMsg>>
      [] OTHER -> <<ExceptionMsg>>

(***************************************************************************)
(* transform_data.                                                         *)
(***************************************************************************)
\* variant: the body taken from the third row on, data[2:-1]
body_rows_from_2(data) == PySlice(data.rows, 2, -1)

\* the rows selected by data[3:-1]
body_rows(data) == PySlice(data.rows, 3, -1)

\* lines 62-71: the body rows named positionally, with grazer and
\* reporting_date broadcast; defined when the two metadata cells exist.
candidates(data) ==
    LET grazer == data.rows[1][2]
        reporting_date == data.rows[2][2]
        body == body_rows(data)
    IN  [k \in 1..Len(body) |->
            [area |-> body[k][1],
             number_of_animal_units |-> body[k][2],
             comments |-> body[k][3],
             grazer |-> grazer,
             reporting_date |-> reporting_date]]

\* data[0, 1], data[1, 1] and the assignment of three column names succeed
shape_ok(data) ==
    /\ data.ok
    /\ Len(data.rows) >= 2
    /\ data.width = 3

\* variant: drop_nulls(subset=["area"])
drop_nulls_area_only(rows) ==
    SelectSeq(rows, LAMBDA r : r.area # Null)

drop_nulls(rows) ==
    SelectSeq(rows, LAMBDA r : r.area # Null /\ r.number_of_animal_units # Null)

\* variant: replace_strict(.., default=None), a value without an alias
\* becomes null
replace_strict(area, mapping) ==
    IF area \in DOMAIN mapping THEN mapping[area] ELSE Null

replace(area, mapping) ==
    IF area \in DOMAIN mapping THEN mapping[area] ELSE area

transform_data(data, yaml) ==
    IF ~shape_ok(data) THEN None
    ELSE IF ~(Range(yaml.db_schema) \subseteq Columns)
            \/ ~({"area", "number_of_animal_units"} \subseteq Range(yaml.db_schema))
         THEN None
    ELSE LET selected == [k \in 1..Len(candidates(data)) |->
                            [c \in Range(yaml.db_schema) |-> candidates(data)[k][c]]]
             kept == drop_nulls(selected)
             dated == "reporting_date" \in Range(yaml.db_schema)
             parses == \A k \in 1..Len(kept) : to_date(kept[k].reporting_date).ok
         IN  IF dated /\ ~parses THEN None
             ELSE Frame(Len(yaml.db_schema),
                    [k \in 1..Len(kept) |->
                        [c \in Range(yaml.db_schema) |->
                            CASE c = "area" -> replace(kept[k].area, yaml.areas_to_replace)
                              [] c = "reporting_date" -> to_date(kept[k].reporting_date).date
                              [] OTHER -> kept[k][c]]])

transform_log(data, yaml) ==
    IF transform_data(data, yaml).ok THEN <<TransformedMsg>> ELSE <<ExceptionMsg>>

(***************************************************************************)
(* The loader's statement and its effect on the destination table.         *)
(***************************************************************************)
\* data.to_numpy(): each record as the array of its values in column order
to_numpy(rows, yaml) ==
    [k \in 1..Len(rows) |->
        [c \in 1..Len(yaml.db_schema) |-> rows[k][yaml.db_schema[c]]]]

\* psycopg2.sql composables: how a string enters the statement text.
\* Identifier is rendered double-quoted, Literal escaped as an SQL value,
\* SQL verbatim.
Identifier(string) == [wrapper |-> "Identifier", string |-> string]
Literal(value) == [wrapper |-> "Literal", string |-> value]
SQL(string) == [wrapper |-> "SQL", string |-> string]

\* The statement: what it inserts and updates (col_names, values, prim_key,
\* update_col) and the composables passed to format() for the template's
\* placeholders (args).
build_load_query(data, yaml) ==
    [col_names |-> yaml.db_schema,
     values |-> data,
     prim_key |-> yaml.prim_key,
     update_col |-> yaml.update_col,
     args |-> [schema_name |-> <<Identifier(yaml.schema_name)>>,
               table |-> <<Identifier(yaml.table_name)>>,
               col_names |-> [k \in 1..Len(yaml.db_schema) |->
                                 Identifier(yaml.db_schema[k])],
               values |-> [k \in 1..Len(data) |-> Literal(data[k])],
               prim_key |-> <<SQL(yaml.prim_key)>>,
               update_col |-> <<Identifier(yaml.update_col)>>]]

\* the row a statement carries: column name -> value
incoming(query) ==
    [c \in Range(query.col_names) |->
        query.values[CHOOSE k \in 1..Len(query.col_names) : query.col_names[k] = c]]

conflicts(row, query) ==
    \A c \in Range(query.prim_key) : row[c] = incoming(query)[c]

\* variant: a plain INSERT on a table without the unique constraint
execute_plain_insert(tbl, query, ts) ==
    Append(tbl,
        [c \in Columns \cup {"edited_on"} |->
            IF c \in Range(query.col_names) THEN incoming(query)[c]
            ELSE IF c = "edited_on" THEN 0 ELSE Null])

\* variant: ON CONFLICT .. DO UPDATE SET of every inserted column
execute_overwrite_row(tbl, query, ts) ==
    IF \E k \in 1..Len(tbl) : conflicts(tbl[k], query)
    THEN [k \in 1..Len(tbl) |->
            IF conflicts(tbl[k], query)
            THEN [c \in Columns \cup {"edited_on"} |->
                    IF c \in Range(query.col_names) THEN incoming(query)[c]
                    ELSE IF c = "edited_on" THEN ts ELSE tbl[k][c]]
            ELSE tbl[k]]
    ELSE Append(tbl,
            [c \in Columns \cup {"edited_on"} |->
                IF c \in Range(query.col_names) THEN incoming(query)[c]
                ELSE IF c = "edited_on" THEN 0 ELSE Null])

\* INSERT INTO .. VALUES .. ON CONFLICT (prim_key) DO UPDATE SET
\* update_col = Excluded.update_col, edited_on = current_timestamp
execute(tbl, query, ts) ==
    IF \E k \in 1..Len(tbl) : conflicts(tbl[k], query)
    THEN [k \in 1..Len(tbl) |->
            IF conflicts(tbl[k], query)
            THEN [tbl[k] EXCEPT ![query.update_col] = incoming(query)[query.update_col],
                                !["edited_on"] = ts]
            ELSE tbl[k]]
    ELSE Append(tbl,
            [c \in Columns \cup {"edited_on"} |->
                IF c \in Range(query.col_names) THEN incoming(query)[c]
                ELSE IF c = "edited_on" THEN 0 ELSE Null])

\* polars.concat of the per-file frames, in list order
RECURSIVE concat(_)
concat(frames) ==
    IF frames = <<>> THEN <<>>
    ELSE Head(frames).rows \o concat(Tail(frames))

(***************************************************************************)
(* Inputs: the documents a file of data_dump may hold, and the rows the    *)
(* destination table may hold before the first run.                        *)
(***************************************************************************)
GrazerRow(g) == <<"Grazer", g, Null>>
DateRow(t) == <<"Reporting Date", t, Null>>
HeaderRow == <<"Area", "AUs", "Comments">>
TotalRow == <<"Total", "3", Null>>

Doc(kind, rs) == [kind |-> kind, table |-> Frame(3, rs)]

DocA == Doc("table", <<GrazerRow("g1"), DateRow("June 12, 2023"), HeaderRow,
                       <<"north", "1", "c">>, <<"south", "2", Null>>, TotalRow>>)
DocB == Doc("table", <<GrazerRow("g1"), DateRow("June 12, 2023"), HeaderRow,
                       <<"N pasture", "2", Null>>, <<"east", Null, "c">>, TotalRow>>)
DocBadDate == Doc("table", <<GrazerRow("g1"), DateRow("12/06/2023"), HeaderRow,
                             <<"north", "1", "c">>, TotalRow>>)
DocIllegible == Doc("illegible", <<>>)
DocNoTable == Doc("no_table", <<>>)

Docs == <<DocA, DocB, DocBadDate, DocIllegible, DocNoTable>>

FileNames == <<"f1.pdf", "f2.pdf", "f3.pdf", "f4.pdf">>

\* the directories of at most MaxFiles files; file names being arbitrary, the
\* documents are assigned to the names in the order of Docs
Directory(d) ==
    [f \in {FileNames[k] : k \in 1..Len(d)} |->
        Docs[d[CHOOSE k \in 1..Len(d) : FileNames[k] = f]]]

Directories ==
    UNION {{Directory(d) :
               d \in {e \in [1..n -> 1..Len(Docs)] :
                        \A j, k \in 1..n : j < k => e[j] <= e[k]}} :
             n \in 0..Min(MaxFiles, Len(FileNames))}

OldRow == [area |-> "north", number_of_animal_units |-> "9", comments |-> "old",
           grazer |-> "g1", reporting_date |-> <<2023, 6, 12>>, edited_on |-> 0]

Tables == {<<>>, <<OldRow>>}

\* the tables transform_data is applied to on its own
MetaRows == {GrazerRow("g1")}
DateRows == {DateRow("June 12, 2023"), DateRow("June 31, 2023"), DateRow("12/06/2023")}
BodyRows == {<<"north", "1", "c">>, <<"N pasture", "2", Null>>, <<Null, "3", "c">>,
             <<"south", Null, Null>>, <<"", "", "">>}

RawTables ==
    {Frame(3, rs) : rs \in
        UNION {{r \in [1..n -> MetaRows \cup DateRows \cup BodyRows] :
                  \A k \in 1..n : r[k] \in (IF k = 1 THEN MetaRows
                                            ELSE IF k = 2 THEN DateRows
                                            ELSE BodyRows)} : n \in 0..MaxRows}}
    \cup {Frame(2, <<<<"Grazer", "g1">>, <<"Reporting Date", "June 12, 2023">>,
                     <<"Area", "AUs">>, <<"north", "1">>, <<"Total", "1">>>>),
          None}

(***************************************************************************)
(* State of a process that has not started.                                *)
(***************************************************************************)
NoFault == [conn |-> FALSE, probe |-> "none", row |-> 0, err |-> "none",
            crash |-> "none"]

NoLoad == [done |-> FALSE, data |-> <<>>, table |-> <<>>]

Perms(S) == {p \in [1..Cardinality(S) -> S] : Range(p) = S}

Snapshot(rows) == [exists |-> TRUE, rows |-> rows]

Init ==
    /\ data_dump \in Directories
    /\ dir_order \in Perms(DOMAIN data_dump)
    /\ parquet = NoFile
    /\ loaded_data = [d \in {} |-> <<>>]
    /\ today = 1
    /\ table \in Tables
    /\ now = 1
    /\ table0 = table
    /\ log = <<>>
    /\ etl_yaml \in Configs
    /\ pc = "start"
    /\ run = 1
    /\ listing = <<>>
    /\ idx = 1
    /\ raw_data = None
    /\ cand = <<>>
    /\ cleaned_data = None
    /\ combined_data = <<>>
    /\ proc_data = <<>>
    /\ con = "unset"
    /\ i = 1
    /\ executed = <<>>
    /\ fault = NoFault
    /\ nfaults = 0
    /\ loaded = NoLoad
    /\ aliased = <<>>

env == <<data_dump, dir_order, today, etl_yaml, run, table0, aliased>>

\* a warehouse call raises (at most MaxFaults calls do, over all runs), or
\* it answers
Fails == nfaults < MaxFaults /\ nfaults' = nfaults + 1
Works == nfaults' = nfaults

files == <<listing, idx, raw_data, cand, cleaned_data, combined_data>>

\* variant: no early exit on an empty directory
Start_no_exit ==
    /\ pc = "start"
    /\ log' = Append(log, RunHeader)
    /\ pc' = "files"
    /\ listing' = dir_order
    /\ idx' = 1
    /\ combined_data' = <<>>
    /\ UNCHANGED <<nfaults, env, parquet, loaded_data, table, now, raw_data, cand,
                   cleaned_data, proc_data, con, i, executed, fault, loaded>>

(***************************************************************************)
(* __main__, lines 194-203: the run header, the empty-directory exit,      *)
(* the configuration and the directory listing.                            *)
(***************************************************************************)
Start ==
    /\ pc = "start"
    /\ IF DOMAIN data_dump = {}
       THEN /\ log' = log \o <<RunHeader, NoDataMsg>>
            /\ pc' = "exited"
            /\ listing' = listing
       ELSE /\ log' = Append(log, RunHeader)
            /\ pc' = "files"
            /\ listing' = dir_order
    /\ idx' = 1
    /\ combined_data' = <<>>
    /\ UNCHANGED <<nfaults, env, parquet, loaded_data, table, now, raw_data, cand,
                   cleaned_data, proc_data, con, i, executed, fault, loaded>>

\* lines 204-207: one iteration of the file loop
ProcessFile ==
    /\ pc = "files"
    /\ idx <= Len(listing)
    /\ LET raw == extract_data(data_dump[listing[idx]])
           cleaned == transform_data(raw, etl_yaml)
       IN  /\ raw_data' = raw
           /\ cand' = IF shape_ok(raw) THEN candidates(raw) ELSE <<>>
           /\ cleaned_data' = cleaned
           /\ combined_data' = Append(combined_data, cleaned)
           /\ log' = log \o extract_log(data_dump[listing[idx]])
                         \o transform_log(raw, etl_yaml)
    /\ idx' = idx + 1
    /\ UNCHANGED <<nfaults, env, parquet, loaded_data, table, now, pc, listing,
                   proc_data, con, i, executed, fault, loaded>>

\* variant: the unified dataset is handed to the loader without being
\* written to the snapshot file
Aggregate_no_snapshot ==
    /\ pc = "files"
    /\ idx > Len(listing)
    /\ IF combined_data = <<>> \/ \E k \in 1..Len(combined_data) : ~combined_data[k].ok
       THEN /\ pc' = "crashed"
            /\ fault' = [fault EXCEPT !.crash = "concat"]
            /\ UNCHANGED proc_data
       ELSE /\ proc_data' = concat(combined_data)
            /\ pc' = "connect"
            /\ fault' = fault
    /\ UNCHANGED <<env, files, parquet, loaded_data, table, now, log, con, i, executed,
                   nfaults, loaded>>

\* lines 209-210: polars.concat raises on an empty list and on a list that
\* holds None; the exception is not caught.
Aggregate ==
    /\ pc = "files"
    /\ idx > Len(listing)
    /\ IF combined_data = <<>> \/ \E k \in 1..Len(combined_data) : ~combined_data[k].ok
       THEN /\ pc' = "crashed"
            /\ fault' = [fault EXCEPT !.crash = "concat"]
            /\ UNCHANGED <<proc_data, parquet>>
       ELSE /\ proc_data' = concat(combined_data)
            /\ parquet' = Snapshot(proc_data')
            /\ pc' = "connect"
            /\ fault' = fault
    /\ UNCHANGED <<env, files, loaded_data, table, now, log, con, i, executed,
                   nfaults, loaded>>

(***************************************************************************)
(* load_data_into_pg_warehouse.                                            *)
(***************************************************************************)
\* get_pg_connection: pg.connect raises OperationalError when the session
\* cannot be opened; the handler logs it and the function returns None.
Connect ==
    /\ pc = "connect"
    /\ \/ /\ Works
          /\ con' = "open"
          /\ log' = Append(log, ConnectedMsg)
          /\ fault' = fault
       \/ /\ Fails
          /\ con' = "None"
          /\ log' = Append(log, ErrorMsg)
          /\ fault' = [fault EXCEPT !.conn = TRUE]
    /\ pc' = "check"
    /\ UNCHANGED <<env, files, parquet, loaded_data, table, now, proc_data, i,
                   executed, loaded>>

\* variant: check_table_exists returns at once when it is given no session
CheckTable_skips_none ==
    /\ pc = "check"
    /\ IF con = "None"
       THEN /\ pc' = "rows"
            /\ UNCHANGED <<fault, log, nfaults>>
       ELSE \/ /\ Works
               /\ pc' = "rows"
               /\ log' = Append(log, TableExistsMsg)
               /\ fault' = fault
            \/ /\ Fails
               /\ pc' = "rows"
               /\ log' = Append(log, ErrorMsg)
               /\ fault' = [fault EXCEPT !.probe = "OperationalError"]
            \/ /\ Fails
               /\ pc' = "crashed"
               /\ log' = log
               /\ fault' = [fault EXCEPT !.probe = "ProgrammingError",
                                         !.crash = "probe"]
    /\ i' = 1
    /\ UNCHANGED <<env, files, parquet, loaded_data, table, now, proc_data, con,
                   executed, loaded>>

\* check_table_exists: con.cursor() on None raises AttributeError; the probe
\* either answers, raises OperationalError (caught and logged) or raises
\* another database error such as ProgrammingError for a missing table
\* (not caught).
CheckTable ==
    /\ pc = "check"
    /\ IF con = "None"
       THEN /\ pc' = "crashed"
            /\ fault' = [fault EXCEPT !.crash = "cursor"]
            /\ UNCHANGED <<log, nfaults>>
       ELSE \/ /\ Works
               /\ pc' = "rows"
               /\ log' = Append(log, TableExistsMsg)
               /\ fault' = fault
            \/ /\ Fails
               /\ pc' = "rows"
               /\ log' = Append(log, ErrorMsg)
               /\ fault' = [fault EXCEPT !.probe = "OperationalError"]
            \/ /\ Fails
               /\ pc' = "crashed"
               /\ log' = log
               /\ fault' = [fault EXCEPT !.probe = "ProgrammingError",
                                         !.crash = "probe"]
    /\ i' = 1
    /\ UNCHANGED <<env, files, parquet, loaded_data, table, now, proc_data, con,
                   executed, loaded>>

Attempt(k, query, result) == [row |-> k, query |-> query, result |-> result]

\* lines 147-149 and 160-162: one iteration of the row loop.  The statement
\* either executes (and commits, the session being in autocommit), raises
\* OperationalError (caught: the session is closed, the error logged and
\* the function returns) or raises another database error such as
\* DataError (not caught).
UpsertRow ==
    /\ pc = "rows"
    /\ con = "open"
    /\ i <= Len(proc_data)
    /\ LET query == build_load_query(to_numpy(proc_data, etl_yaml)[i], etl_yaml)
       IN  \/ /\ Works
              /\ table' = execute(table, query, now)
              /\ now' = now + 1
              /\ executed' = Append(executed, Attempt(i, query, "ok"))
              /\ i' = i + 1
              /\ UNCHANGED <<pc, con, log, fault>>
           \/ /\ Fails
              /\ executed' = Append(executed, Attempt(i, query, "OperationalError"))
              /\ con' = "closed"
              /\ log' = Append(log, ErrorMsg)
              /\ fault' = [fault EXCEPT !.row = i, !.err = "OperationalError"]
              /\ pc' = "rename"
              /\ UNCHANGED <<table, now, i>>
           \/ /\ Fails
              /\ executed' = Append(executed, Attempt(i, query, "DataError"))
              /\ fault' = [fault EXCEPT !.row = i, !.err = "DataError",
                                        !.crash = "row"]
              /\ pc' = "crashed"
              /\ UNCHANGED <<table, now, i, con, log>>
    /\ UNCHANGED <<env, files, parquet, loaded_data, proc_data, loaded>>

\* lines 150-159: the loop has run through every row
LoadDone ==
    /\ pc = "rows"
    /\ con = "open"
    /\ i > Len(proc_data)
    /\ con' = "closed"
    /\ log' = Append(log, LoadedMsg)
    /\ loaded' = [done |-> TRUE, data |-> proc_data, table |-> table]
    /\ pc' = "rename"
    /\ UNCHANGED <<nfaults, env, files, parquet, loaded_data, table, now, proc_data, i,
                   executed, fault>>

\* variant: the renaming also moves the enumerated files out of data_dump
Rename_moves_sources ==
    /\ pc = "rename"
    /\ loaded_data' = [d \in DOMAIN loaded_data \cup {today} |->
                          IF d = today THEN parquet.rows ELSE loaded_data[d]]
    /\ data_dump' = [f \in DOMAIN data_dump \ Range(listing) |-> data_dump[f]]
    /\ dir_order' = SelectSeq(dir_order, LAMBDA f : f \notin Range(listing))
    /\ parquet' = NoFile
    /\ log' = Append(log, RanMsg)
    /\ pc' = "done"
    /\ UNCHANGED <<nfaults, today, etl_yaml, run, table0, aliased, files, table, now,
                   proc_data, con, i, executed, fault, loaded>>

(***************************************************************************)
(* __main__, lines 217-222: the snapshot is renamed into loaded_data/      *)
(* under the run's date (replacing an archive of the same date).           *)
(***************************************************************************)
Rename ==
    /\ pc = "rename"
    /\ loaded_data' = [d \in DOMAIN loaded_data \cup {today} |->
                          IF d = today THEN parquet.rows ELSE loaded_data[d]]
    /\ parquet' = NoFile
    /\ log' = Append(log, RanMsg)
    /\ pc' = "done"
    /\ UNCHANGED <<nfaults, env, files, table, now, proc_data, con, i, executed, fault,
                   loaded>>

\* the program is started again, the same or a later day
NextRun ==
    /\ pc \in {"done", "exited", "crashed"}
    /\ run < MaxRuns
    /\ run' = run + 1
    /\ today' \in {today, Min(today + 1, MaxDay)}
    /\ log' = <<>>
    /\ pc' = "start"
    /\ listing' = <<>>
    /\ idx' = 1
    /\ raw_data' = None
    /\ cand' = <<>>
    /\ cleaned_data' = None
    /\ combined_data' = <<>>
    /\ proc_data' = <<>>
    /\ con' = "unset"
    /\ i' = 1
    /\ executed' = <<>>
    /\ fault' = NoFault
    /\ UNCHANGED <<nfaults, data_dump, dir_order, etl_yaml, parquet, loaded_data, table, now,
                   loaded, table0, aliased>>

Next ==
    \/ Start
    \/ ProcessFile
    \/ Aggregate
    \/ Connect
    \/ CheckTable
    \/ UpsertRow
    \/ LoadDone
    \/ Rename
    \/ NextRun

Spec == Init /\ [][Next]_vars

(***************************************************************************)
(* transform_data on its own: applied once to a table drawn from RawTables.*)
(***************************************************************************)
InitT ==
    /\ data_dump = [f \in {} |-> DocA]
    /\ dir_order = <<>>
    /\ parquet = NoFile
    /\ loaded_data = [d \in {} |-> <<>>]
    /\ today = 1
    /\ table = <<>>
    /\ table0 = <<>>
    /\ now = 1
    /\ log = <<>>
    /\ etl_yaml \in Configs
    /\ pc = "transform"
    /\ run = 1
    /\ listing = <<>>
    /\ idx = 1
    /\ raw_data \in RawTables
    /\ cand = <<>>
    /\ cleaned_data = None
    /\ combined_data = <<>>
    /\ proc_data = <<>>
    /\ con = "unset"
    /\ i = 1
    /\ executed = <<>>
    /\ fault = NoFault
    /\ nfaults = 0
    /\ loaded = NoLoad
    /\ aliased = <<>>

Normalize ==
    /\ pc = "transform"
    /\ cand' = IF shape_ok(raw_data) THEN candidates(raw_data) ELSE <<>>
    /\ cleaned_data' = transform_data(raw_data, etl_yaml)
    /\ log' = log \o transform_log(raw_data, etl_yaml)
    /\ pc' = "transformed"
    /\ UNCHANGED <<nfaults, env, parquet, loaded_data, table, now, listing, idx, raw_data,
                   combined_data, proc_data, con, i, executed, fault, loaded>>

NextT == Normalize

SpecT == InitT /\ [][NextT]_vars

(***************************************************************************)
(* The alias mapping on its own: polars.col("area").replace applied again  *)
(* and again to an area value, under an alias table drawn from AliasTables.*)
(***************************************************************************)
AliasNames == {"N pasture", "north", "south"}

AliasTables == UNION {[keys -> AliasNames] : keys \in SUBSET AliasNames}

AreaValues == AliasNames \cup {"east", Null}

InitA ==
    /\ data_dump = [f \in {} |-> DocA]
    /\ dir_order = <<>>
    /\ parquet = NoFile
    /\ loaded_data = [d \in {} |-> <<>>]
    /\ today = 1
    /\ table = <<>>
    /\ table0 = <<>>
    /\ now = 1
    /\ log = <<>>
    /\ etl_yaml \in {[Config("number_of_animal_units") EXCEPT !.areas_to_replace = m] :
                       m \in AliasTables}
    /\ pc = "alias"
    /\ run = 1
    /\ listing = <<>>
    /\ idx = 1
    /\ raw_data = None
    /\ cand = <<>>
    /\ cleaned_data = None
    /\ combined_data = <<>>
    /\ proc_data = <<>>
    /\ con = "unset"
    /\ i = 1
    /\ executed = <<>>
    /\ fault = NoFault
    /\ nfaults = 0
    /\ loaded = NoLoad
    /\ aliased \in {<<a>> : a \in AreaValues}

ApplyAlias ==
    /\ pc = "alias"
    /\ Len(aliased) <= MaxApplications
    /\ aliased' = Append(aliased,
                         replace(aliased[Len(aliased)], etl_yaml.areas_to_replace))
    /\ UNCHANGED <<data_dump, dir_order, parquet, loaded_data, today, table, table0,
                   now, log, etl_yaml, pc, run, files, proc_data, con, i, executed,
                   fault, nfaults, loaded>>

NextA == ApplyAlias

SpecA == InitA /\ [][NextA]_vars

(***************************************************************************)
(* Properties.                                                             *)
(***************************************************************************)
Logged(msg) == \E k \in 1..Len(log) : log[k] = msg

Count(msg) == Cardinality({k \in 1..Len(log) : log[k] = msg})

Succeeded(frames) == SelectSeq(frames, LAMBDA fr : fr.ok)

SomeFailedSomeSucceeded ==
    /\ \E k \in 1..Len(combined_data) : ~combined_data[k].ok
    /\ \E k \in 1..Len(combined_data) : combined_data[k].ok

\* C1: in a run where at least one file failed extraction or normalization
\* and at least one other file succeeded, once the file loop is over the run
\* has not crashed and the unified dataset holds exactly the records of the
\* files that succeeded.
C1_FailureIsolation ==
    (pc \notin {"start", "files"} /\ SomeFailedSomeSucceeded)
        => /\ pc # "crashed"
           /\ proc_data = concat(Succeeded(combined_data))

SameButEditedOn(t1, t2) ==
    /\ Len(t1) = Len(t2)
    /\ \A k \in 1..Len(t1) : \A c \in Columns : t1[k][c] = t2[k][c]

\* C2: when a load of a dataset completes and the latest completed load
\* before it loaded the same dataset, the table has the same rows as after
\* that earlier load, with every column other than edited_on unchanged.
C2_UpsertIdempotence ==
    [][(log' = Append(log, LoadedMsg) /\ loaded.done /\ loaded.data = proc_data)
          => SameButEditedOn(table', loaded.table)]_vars

\* the dataset has been loaded completely a second time, over the table the
\* first load left, and the dataset holds two rows of one primary key
C2_Witness ==
    /\ pc = "rows"
    /\ run = 2
    /\ i > Len(proc_data)
    /\ loaded.done
    /\ loaded.data = proc_data
    /\ \E j, k \in 1..Len(proc_data) :
          /\ j < k
          /\ \A c \in Range(etl_yaml.prim_key) : proc_data[j][c] = proc_data[k][c]
          /\ proc_data[j][etl_yaml.update_col] # proc_data[k][etl_yaml.update_col]
    /\ table # loaded.table

KeyMatch(row, rec) == \A c \in Range(etl_yaml.prim_key) : row[c] = rec[c]

\* C3: a row upserted on an existing primary key changes exactly the update
\* column and edited_on of that row, whatever the other incoming values, and
\* no other row; a row of an absent primary key is inserted with all its
\* incoming values.
C3_NarrowUpsert ==
    [][(pc = "rows" /\ i' = i + 1) =>
          LET rec == proc_data[i]
          IN  IF \E k \in 1..Len(table) : KeyMatch(table[k], rec)
              THEN /\ Len(table') = Len(table)
                   /\ \A k \in 1..Len(table) :
                         IF KeyMatch(table[k], rec)
                         THEN /\ table'[k][etl_yaml.update_col] = rec[etl_yaml.update_col]
                              /\ table'[k].edited_on = now
                              /\ \A c \in Columns \ {etl_yaml.update_col} :
                                    table'[k][c] = table[k][c]
                         ELSE table'[k] = table[k]
              ELSE /\ Len(table') = Len(table) + 1
                   /\ SubSeq(table', 1, Len(table)) = table
                   /\ \A c \in Columns : table'[Len(table')][c] = rec[c]]_vars

\* an existing row was upserted by a row carrying other comments: only its
\* update column and edited_on changed
C3_Witness ==
    /\ etl_yaml.update_col = "number_of_animal_units"
    /\ pc = "rows"
    /\ i = 2
    /\ proc_data[1].area = "north"
    /\ proc_data[1].comments = "c"
    /\ table[1].comments = "old"
    /\ table[1].number_of_animal_units = "1"
    /\ table[1].edited_on > 0

LoadSucceeded == Logged(LoadedMsg)

C5_ArchiveGated ==
    (pc = "done" \/ Logged(RanMsg))
        => (LoadSucceeded /\ ~fault.conn /\ fault.row = 0)

\* C6: when the upsert of row k fails, the failure is logged, no statement
\* is executed for a later row, and the rows before k were executed.
C6_FailFastRows ==
    fault.row # 0
        => /\ Count(ErrorMsg) = 1 + (IF fault.probe = "OperationalError" THEN 1 ELSE 0)
           /\ Len(executed) = fault.row
           /\ \A k \in 1..Len(executed) :
                 /\ executed[k].row = k
                 /\ (k < fault.row => executed[k].result = "ok")

\* C7: when the session cannot be opened, the failure is logged, the run
\* goes no further than the table check, no statement is executed and no
\* successful-load record is logged.
C7_ConnectionFailureAborts ==
    fault.conn
        => /\ Logged(ErrorMsg)
           /\ pc \in {"check", "crashed"}
           /\ executed = <<>>
           /\ ~Logged(LoadedMsg)
           /\ ~Logged(RanMsg)
           /\ con = "None"

C7_Witness ==
    /\ fault.conn
    /\ pc = "crashed"
    /\ Len(proc_data) > 0
    /\ parquet.exists

\* C8: when the table probe fails, the failure is logged and the run goes on
\* to the row loop.
C8_VerificationAdvisory ==
    fault.probe # "none"
        => /\ Logged(ErrorMsg)
           /\ fault.crash # "probe"
           /\ pc \in {"rows", "rename", "done"} \/ fault.row # 0

\* C9 as claimed: a run over an empty inbound directory logs nothing but the
\* "no data" record.
C9_OnlyNoDataLogged ==
    (DOMAIN data_dump = {} /\ pc # "start")
        => log = <<NoDataMsg>>

\* C9 as amended: a run over an empty inbound directory ends after logging
\* the run header and the "no data" record and nothing else; it processes no
\* file, opens no session, executes no statement, writes no snapshot and
\* renames nothing.
C9_EmptyInboundNoOp ==
    (DOMAIN data_dump = {} /\ pc # "start")
        => /\ pc = "exited"
           /\ log = <<RunHeader, NoDataMsg>>
           /\ combined_data = <<>>
           /\ idx = 1
           /\ con = "unset"
           /\ executed = <<>>
           /\ table \in Tables
           /\ ~parquet.exists
           /\ DOMAIN loaded_data = {}

C9_Witness ==
    /\ DOMAIN data_dump = {}
    /\ pc = "exited"
    /\ run = 2
    /\ Len(log) = 2

\* C10: for a table of n >= 4 rows the candidate records are the rows at
\* (0-based) indices 3..n-2 in their order, n-4 of them, each with the
\* grazer of cell (0, 1) and the reporting date of cell (1, 1).
C10_BodySlicing ==
    (pc = "transformed" /\ raw_data.ok /\ raw_data.width = 3
        /\ Len(raw_data.rows) >= 4)
        => LET n == Len(raw_data.rows)
           IN  /\ Len(cand) = n - 4
               /\ \A k \in 1..(n - 4) :
                     /\ cand[k].area = raw_data.rows[k + 3][1]
                     /\ cand[k].number_of_animal_units = raw_data.rows[k + 3][2]
                     /\ cand[k].comments = raw_data.rows[k + 3][3]
                     /\ cand[k].grazer = raw_data.rows[1][2]
                     /\ cand[k].reporting_date = raw_data.rows[2][2]

C10_Witness ==
    /\ pc = "transformed"
    /\ Len(raw_data.rows) = 6
    /\ Len(cand) = 2
    /\ cand[1].area = "north"
    /\ cand[2].area = Null
    /\ raw_data.rows[3][1] = "south"
    /\ raw_data.rows[6][1] = "N pasture"

\* C11: for a table of fewer than four rows transform_data fails, returning
\* no record set.
C11_ShortTablesFail ==
    (pc = "transformed" /\ raw_data.ok /\ Len(raw_data.rows) < 4)
        => ~cleaned_data.ok

\* C12 as claimed: every record transform_data returns has an area and a
\* number_of_animal_units that are neither null nor empty.
C12_NoNullNoEmpty ==
    (pc = "transformed" /\ cleaned_data.ok)
        => \A k \in 1..Len(cleaned_data.rows) :
              /\ cleaned_data.rows[k].area \notin {Null, ""}
              /\ cleaned_data.rows[k].number_of_animal_units \notin {Null, ""}

BothPresent(r) == r.area # Null /\ r.number_of_animal_units # Null

\* C12 as amended: transform_data drops, without failing on them, the body
\* rows whose area or number_of_animal_units is null, and only those: every
\* record it returns has a non-null area and number_of_animal_units, and the
\* records returned are the candidate rows with both cells non-null (an empty
\* string counts as present), in their order.
C12_NoNullKept ==
    (pc = "transformed" /\ cleaned_data.ok)
        => LET kept == SelectSeq(cand, BothPresent)
           IN  /\ \A k \in 1..Len(cleaned_data.rows) :
                     /\ cleaned_data.rows[k].area # Null
                     /\ cleaned_data.rows[k].number_of_animal_units # Null
               /\ Len(cleaned_data.rows) = Len(kept)
               /\ \A k \in 1..Len(kept) :
                     /\ cleaned_data.rows[k].number_of_animal_units
                           = kept[k].number_of_animal_units
                     /\ cleaned_data.rows[k].comments = kept[k].comments
                     /\ kept[k].area \notin DOMAIN etl_yaml.areas_to_replace
                           => cleaned_data.rows[k].area = kept[k].area

\* a table whose body has a row without animal units and a row of empty
\* strings: the second is returned
C12_Witness ==
    /\ pc = "transformed"
    /\ cleaned_data.ok
    /\ Len(cand) = 2
    /\ cand[1].number_of_animal_units = Null
    /\ cand[2].area = ""
    /\ Len(cleaned_data.rows) = 1
    /\ cleaned_data.rows[1].area = ""

Unparseable == {"June 31, 2023", "12/06/2023"}

DateText == raw_data.rows[2][2]

\* C13 as claimed, on tables of at least four rows: when the reporting-date
\* text does not parse, transform_data fails.
C13_BadDateFails ==
    (pc = "transformed" /\ raw_data.ok /\ raw_data.width = 3
        /\ Len(raw_data.rows) >= 4 /\ DateText \in Unparseable)
        => ~cleaned_data.ok

\* C13 as amended: when the reporting-date text does not parse and at least
\* one body row survives the null filter, transform_data fails for the whole
\* file; in every case no row of a file with an unparseable date is returned
\* and no record has a null reporting date; the text "June 12, 2023" gives
\* the date 2023-06-12 on every record of the file.
C13_BadDateNoRecords ==
    (pc = "transformed" /\ shape_ok(raw_data))
        => /\ (DateText \in Unparseable /\ \E k \in 1..Len(cand) : BothPresent(cand[k]))
                 => ~cleaned_data.ok
           /\ (DateText \in Unparseable /\ cleaned_data.ok)
                 => cleaned_data.rows = <<>>
           /\ cleaned_data.ok
                 => \A k \in 1..Len(cleaned_data.rows) :
                       /\ cleaned_data.rows[k].reporting_date # <<>>
                       /\ DateText = "June 12, 2023"
                             => cleaned_data.rows[k].reporting_date = <<2023, 6, 12>>

\* a table with two complete body rows and a date in another format: it fails
C13_Witness ==
    /\ pc = "transformed"
    /\ shape_ok(raw_data)
    /\ DateText = "12/06/2023"
    /\ Len(cand) = 2
    /\ BothPresent(cand[1])
    /\ BothPresent(cand[2])
    /\ ~cleaned_data.ok

\* C14 as claimed: under every alias table, applying the alias mapping to an
\* area value twice gives what applying it once gives.
C14_AliasIdempotent ==
    \A k \in 2..Len(aliased) : aliased[k] = aliased[2]

\* no canonical name of the table is itself the alias of another name
NoChain(mapping) ==
    \A a \in DOMAIN mapping :
        mapping[a] \in DOMAIN mapping => mapping[mapping[a]] = mapping[a]

\* C14 as amended: under every alias table in which no canonical name is
\* itself the alias of another name, applying the alias mapping to an area
\* value twice (or more) gives what applying it once gives; a value without
\* an alias stays as it is.
C14_AliasIdempotentNoChain ==
    /\ NoChain(etl_yaml.areas_to_replace)
          => \A k \in 2..Len(aliased) : aliased[k] = aliased[2]
    /\ (Len(aliased) >= 2 /\ aliased[1] \notin DOMAIN etl_yaml.areas_to_replace)
          => aliased[2] = aliased[1]

\* an alias replaced by its canonical name, which the second application
\* leaves alone, under a table of two aliases
C14_Witness ==
    /\ NoChain(etl_yaml.areas_to_replace)
    /\ DOMAIN etl_yaml.areas_to_replace = {"N pasture", "south"}
    /\ aliased = <<"N pasture", "north", "north">>

\* the record sets of the files of the listing from position k on, each
\* extracted and normalized, concatenated in the order of the listing
RECURSIVE PerFileRecords(_)
PerFileRecords(k) ==
    IF k > Len(listing) THEN <<>>
    ELSE transform_data(extract_data(data_dump[listing[k]]), etl_yaml).rows
             \o PerFileRecords(k + 1)

LoaderReached ==
    pc \in {"connect", "check", "rows"} \/ con # "unset" \/ executed # <<>>

\* C15: in every run that reaches the loader, from before the first
\* connection attempt until the snapshot is archived, the snapshot file
\* exists and holds exactly the dataset handed to the loader, which is the
\* per-file record sets concatenated in file-enumeration order.
C15_SnapshotPrecedesLoad ==
    (LoaderReached /\ pc # "done")
        => /\ parquet = Snapshot(proc_data)
           /\ proc_data = PerFileRecords(1)

\* the loader has executed an upsert of a dataset made of two files' records
C15_Witness ==
    /\ pc = "rows"
    /\ Len(listing) = 2
    /\ executed # <<>>
    /\ \A k \in 1..2 : combined_data[k].rows # <<>>
    /\ combined_data[1] # combined_data[2]
    /\ parquet = Snapshot(combined_data[1].rows \o combined_data[2].rows)

\* the table a single uninterrupted load of the arrays leaves, statement by
\* statement, starting from tbl at time ts
RECURSIVE LoadAll(_, _, _)
LoadAll(tbl, arrays, ts) ==
    IF arrays = <<>> THEN tbl
    ELSE LoadAll(execute(tbl, build_load_query(Head(arrays), etl_yaml), ts),
                 Tail(arrays), ts + 1)

\* C16: when a load of the dataset completes, whether or not an earlier load
\* of the same dataset stopped after committing a prefix of its rows, the
\* table has the rows a single uninterrupted load of the dataset from the
\* initial table leaves, with every column other than edited_on equal.
C16_RerunConverges ==
    Logged(LoadedMsg)
        => SameButEditedOn(table, LoadAll(table0, to_numpy(proc_data, etl_yaml), 1))

\* the second run has loaded the dataset completely, after the first run
\* stopped having committed some but not all of its rows, over a table that
\* held a row before the first run
C16_Witness ==
    /\ run = 2
    /\ Logged(LoadedMsg)
    /\ nfaults = 1
    /\ table0 # <<>>
    /\ Len(proc_data) >= 2
    /\ now > Len(proc_data) + 1
    /\ now < 2 * Len(proc_data) + 1

Placeholders == {"schema_name", "table", "col_names", "values", "prim_key", "update_col"}

\* C17: in every statement the loader has built, every configuration-derived
\* name (schema, table, column names, primary-key columns, update column)
\* enters as a quoted identifier and every data value as an escaped literal;
\* no configuration or data string enters as raw SQL text.
C17_InjectionSafe ==
    \A n \in 1..Len(executed) :
        LET args == executed[n].query.args
        IN  \A p \in Placeholders : \A k \in 1..Len(args[p]) :
               args[p][k].wrapper = (IF p = "values" THEN "Literal" ELSE "Identifier")

\* one statement executed for every row of the dataset, in dataset order,
\* none failing
AllRowsExecuted ==
    /\ Len(executed) = Len(proc_data)
    /\ \A k \in 1..Len(executed) :
          executed[k] = Attempt(k, build_load_query(to_numpy(proc_data, etl_yaml)[k],
                                                    etl_yaml), "ok")

\* C18: the successful-load record is logged only after one statement has
\* been executed for every row, in dataset order, none failing; the session
\* is opened at most once in a run; and once the load has succeeded or a row
\* upsert has failed, the session is closed.
C18_LoadAccounting ==
    /\ Logged(LoadedMsg) => AllRowsExecuted
    /\ Count(ConnectedMsg) <= 1
    /\ (Logged(LoadedMsg) \/ fault.row # 0) => con = "closed"

====
